---------------------------- MODULE Spec2Model ----------------------------
(* A model of the SuspiraSynth workers.                                    *)
(*   worker.js        the particle worker: Particle, initParticleSystem,   *)
(*                    calculateConnections and the onmessage handler       *)
(*   audio-worker.js  the tempo worker: processAudioWithSoundTouch and     *)
(*                    its onmessage handler                                *)
(*                                                                         *)
(* Numbers.  A JavaScript number is modelled in fixed point: a length or a *)
(* velocity v is the integer v * Unit, every arithmetic result that is not *)
(* a multiple of 1/Unit is rounded to the nearest one (RoundDiv, Sqrt), as *)
(* IEEE arithmetic rounds to the nearest double.  A Float32Array element   *)
(* keeps fewer digits than a number: storing rounds to the nearest         *)
(* multiple of F32Step/Unit (F32).  A band level is a multiple of          *)
(* 1/LevelDen.  Math.random is a generator with a hidden state (rng).      *)
EXTENDS Integers, Sequences, FiniteSets, TLC

VARIABLES
    \* worker.js
    particlesArray,        \* worker.js:58
    shadowParticlesArray,  \* worker.js:59
    eqBandInstances,       \* worker.js:60
    rng,                   \* the state of Math.random
    lastMsg,               \* the message the handler ran on last
    posted,                \* what that run of the handler posted
    threw,                 \* whether that run ended in an uncaught error
    nHandled,              \* messages handled so far
    nPosted,               \* responses posted so far
    \* Particle.update on one particle
    sp, sPre, sBands, sCount,
    \* calculateConnections on one collection
    cParticles, cShadow, cBands, cRecords, cLines, cDone,
    \* audio-worker.js
    backendLoaded, aReq, aChunks, aPosted, aThrew, aHandled

workerVars == <<particlesArray, shadowParticlesArray, eqBandInstances,
                lastMsg, posted, threw, nHandled, nPosted>>
stepVars == <<sp, sPre, sBands, sCount>>
connVars == <<cParticles, cShadow, cBands, cRecords, cLines, cDone>>
audioVars == <<backendLoaded, aReq, aChunks, aPosted, aThrew, aHandled>>
vars == <<workerVars, rng, stepVars, connVars, audioVars>>

---------------------------------------------------------------------------
(* Bounds of the model *)

Unit == 16
F32Step == 4
LevelDen == 30
SpeedTol == 2
MaxMsgs == 4
MaxSteps == 3
ConnCount == 3
MaxOutFrames == 3
MaxChunkFrames == 2
MaxAudioMsgs == 2

(* Constants of the program *)

particleCount == 20
maxSpeedTenths == 25
frictionPercent == 97
switchDistance == 30
cellSize == 120
initWidth == 1000
initHeight == 500

\* JavaScript values: undefined, an array of the given items, and the
\* TypeError that reading a property of undefined raises
Undefined == [undefined |-> TRUE]
Array(items) == [items |-> items]
TypeError == [error |-> "TypeError"]

---------------------------------------------------------------------------
(* Arithmetic *)

\* a / b rounded to the nearest integer, b > 0
RoundDiv(a, b) == (2 * a + b) \div (2 * b)

RECURSIVE SqrtSearch(_, _, _)
SqrtSearch(n, lo, hi) ==
    IF lo >= hi THEN lo
    ELSE LET mid == (lo + hi + 1) \div 2
         IN  IF mid * mid <= n THEN SqrtSearch(n, mid, hi)
                               ELSE SqrtSearch(n, lo, mid - 1)

\* Math.sqrt: the square root rounded to the nearest representable value
Sqrt(n) ==
    LET r == SqrtSearch(n, 0, 46340)
    IN  IF n - r * r > r THEN r + 1 ELSE r

\* storing a number in a Float32Array element
F32(v) == RoundDiv(v, F32Step) * F32Step

\* Math.random: the generator's next state, and the number in [0,1) it
\* stands for is state / RngMod
RngMod == 65536
NextRng(r) == (r * 25173 + 13849) % RngMod

\* Math.ceil in place of Math.floor
RandomIndexCeil(r, n) == ((r * n) \div RngMod) + 1

\* Math.floor(Math.random() * n), from the state r just drawn
RandomIndex(r, n) == (r * n) \div RngMod

---------------------------------------------------------------------------
(* class Particle *)

\* new Particle(isShadow): four draws of Math.random
Particle(isShadow, r) ==
    LET r1 == NextRng(r)
        r2 == NextRng(r1)
        r3 == NextRng(r2)
        r4 == NextRng(r3)
    IN  [p |-> [x |-> (r1 * (initWidth * Unit)) \div RngMod,
                y |-> (r2 * (initHeight * Unit)) \div RngMod,
                speedX |-> ((2 * r3 - RngMod) * Unit) \div RngMod,
                speedY |-> ((2 * r4 - RngMod) * Unit) \div RngMod,
                targetIndex |-> 0,
                isShadow |-> isShadow],
         rng |-> r4]

\* eqBands[i] of JavaScript: undefined outside the array
BandAt(eqBands, i) ==
    IF eqBands # Undefined /\ i >= 0 /\ i < Len(eqBands.items)
    THEN eqBands.items[i + 1] ELSE Undefined

\* lines 23-27: a target that is not valid is replaced by a random one
Revalidate(p, eqBands, r) ==
    IF BandAt(eqBands, p.targetIndex) = Undefined
    THEN LET r1 == NextRng(r)
         IN  [targetIndex |-> RandomIndex(r1, Len(eqBands.items)), rng |-> r1]
    ELSE [targetIndex |-> p.targetIndex, rng |-> r]

\* one draw, whatever it gives
PickAny(targetIndex, n, r) ==
    LET r1 == NextRng(r)
    IN  [targetIndex |-> RandomIndex(r1, n), rng |-> r1]

\* lines 36-38: do { newIndex = random } while (newIndex === targetIndex
\* && eqBands.length > 1)
RECURSIVE PickOther(_, _, _)
PickOther(targetIndex, n, r) ==
    LET r1 == NextRng(r)
        newIndex == RandomIndex(r1, n)
    IN  IF newIndex = targetIndex /\ n > 1
        THEN PickOther(targetIndex, n, r1)
        ELSE [targetIndex |-> newIndex, rng |-> r1]

\* line 35: Math.sqrt(dx*dx + dy*dy) < switchDistance
NearTarget(dx, dy) == Sqrt(dx * dx + dy * dy) < switchDistance * Unit

\* lines 35-40
SwitchTarget(targetIndex, dx, dy, n, r) ==
    IF NearTarget(dx, dy)
    THEN PickOther(targetIndex, n, r)
    ELSE [targetIndex |-> targetIndex, rng |-> r]

\* the limit put on speedX alone
ClampSpeedXOnly(sx, sy) ==
    LET speed == Sqrt(sx * sx + sy * sy)
    IN  IF 10 * speed > maxSpeedTenths * Unit
        THEN [speedX |-> RoundDiv(RoundDiv(sx * Unit * Unit, speed)
                                    * maxSpeedTenths, 10 * Unit),
              speedY |-> sy]
        ELSE [speedX |-> sx, speedY |-> sy]

\* lines 47-51: the speed limit
ClampSpeed(sx, sy) ==
    LET speed == Sqrt(sx * sx + sy * sy)
    IN  IF 10 * speed > maxSpeedTenths * Unit
        THEN [speedX |-> RoundDiv(RoundDiv(sx * Unit * Unit, speed)
                                    * maxSpeedTenths, 10 * Unit),
              speedY |-> RoundDiv(RoundDiv(sy * Unit * Unit, speed)
                                    * maxSpeedTenths, 10 * Unit)]
        ELSE [speedX |-> sx, speedY |-> sy]

\* lines 29-30, 42-45: pullFactor = 0.001 + level * 0.01, then friction
Accelerate(speed, d, level) ==
    RoundDiv((speed + RoundDiv(d * (LevelDen + 10 * level), 1000 * LevelDen))
               * frictionPercent, 100)

\* Particle.update(eqBands): the particle and the generator afterwards
ParticleUpdate(p, eqBands, r) ==
    IF eqBands = Undefined \/ Len(eqBands.items) = 0 THEN [p |-> p, rng |-> r]
    ELSE
      LET v == Revalidate(p, eqBands, r)
          target == BandAt(eqBands, v.targetIndex)
      IN  IF target = Undefined
          THEN [p |-> [p EXCEPT !.targetIndex = v.targetIndex], rng |-> v.rng]
          ELSE
            LET level == IF p.isShadow THEN target.dryLevel ELSE target.wetLevel
                dx == target.x - p.x
                dy == target.y - p.y
                s == SwitchTarget(v.targetIndex, dx, dy, Len(eqBands.items), v.rng)
                c == ClampSpeed(Accelerate(p.speedX, dx, level),
                                Accelerate(p.speedY, dy, level))
            IN  [p |-> [x |-> p.x + c.speedX,
                        y |-> p.y + c.speedY,
                        speedX |-> c.speedX,
                        speedY |-> c.speedY,
                        targetIndex |-> s.targetIndex,
                        isShadow |-> p.isShadow],
                 rng |-> s.rng]

---------------------------------------------------------------------------
(* calculateConnections *)

RECURSIVE Concat(_)
Concat(ss) == IF ss = <<>> THEN <<>> ELSE Head(ss) \o Concat(Tail(ss))

\* Math.floor(v / cellSize)
CellOf(v) == v \div (cellSize * Unit)

CellKey(p) == <<CellOf(p.x), CellOf(p.y)>>

\* lines 84-96: the grid, each cell the particles (their places in the
\* collection) in the order they were pushed
Grid(particleSystem) ==
    [key \in {CellKey(particleSystem[i]) : i \in DOMAIN particleSystem} |->
        SelectSeq([i \in DOMAIN particleSystem |-> i],
                  LAMBDA i : CellKey(particleSystem[i]) = key)]

\* grid[key], undefined (no particles) for a cell nobody is in
GridAt(grid, key) == IF key \in DOMAIN grid THEN grid[key] ELSE <<>>

\* line 118: minBandDistSq = Infinity, under which every distance is
Infinity == -1

\* bandDistSq <= minBandDistSq: of the bands as close, the last
RECURSIVE ClosestBandLast(_, _, _, _, _, _)
ClosestBandLast(allEqBands, midX, midY, k, best, minBandDistSq) ==
    IF k > Len(allEqBands.items) THEN allEqBands.items[best]
    ELSE LET band == allEqBands.items[k]
             bandDistSq == (midX - band.x) * (midX - band.x)
                             + (midY - band.y) * (midY - band.y)
         IN  IF minBandDistSq = Infinity \/ bandDistSq <= minBandDistSq
             THEN ClosestBandLast(allEqBands, midX, midY, k + 1, k, bandDistSq)
             ELSE ClosestBandLast(allEqBands, midX, midY, k + 1, best, minBandDistSq)

\* lines 117-125: the band closest to (midX, midY); best is the place of
\* the closest band so far, minBandDistSq its squared distance
RECURSIVE ClosestBand(_, _, _, _, _, _)
ClosestBand(allEqBands, midX, midY, k, best, minBandDistSq) ==
    IF k > Len(allEqBands.items) THEN allEqBands.items[best]
    ELSE LET band == allEqBands.items[k]
             bandDistSq == (midX - band.x) * (midX - band.x)
                             + (midY - band.y) * (midY - band.y)
         IN  IF minBandDistSq = Infinity \/ bandDistSq < minBandDistSq
             THEN ClosestBand(allEqBands, midX, midY, k + 1, k, bandDistSq)
             ELSE ClosestBand(allEqBands, midX, midY, k + 1, best, minBandDistSq)

\* line 128: maxDist = 10 + level * 150
MaxDist(level) == RoundDiv((10 * LevelDen + level * 150) * Unit, LevelDen)

\* line 132: (1 - Math.sqrt(distSq) / maxDist) * level * 1.5, in 1/Unit^2
Opacity(distSq, maxDist, level) ==
    RoundDiv((maxDist - Sqrt(distSq)) * level * 15 * Unit * Unit,
             maxDist * LevelDen * 10)

\* line 130: distSq < maxDist * maxDist
WithinMaxDist(distSq, maxDist) == distSq < maxDist * maxDist

\* lines 112-133: what the pair (p1, p2) pushes on lines
PairLine(p1, p2, isShadow, allEqBands) ==
    LET distSq == (p1.x - p2.x) * (p1.x - p2.x) + (p1.y - p2.y) * (p1.y - p2.y)
        midX == RoundDiv(p1.x + p2.x, 2)
        midY == RoundDiv(p1.y + p2.y, 2)
        closestBand == ClosestBand(allEqBands, midX, midY, 1, 1, Infinity)
        level == IF isShadow THEN closestBand.dryLevel ELSE closestBand.wetLevel
        maxDist == MaxDist(level)
    IN  IF WithinMaxDist(distSq, maxDist)
        THEN << <<p1.x, p1.y, p2.x, p2.y, Opacity(distSq, maxDist, level)>> >>
        ELSE <<>>

\* dx < 1 for dx <= 1: the columns left of p1 and its own
NeighboursLeft(key) ==
    [o \in 1..6 |-> <<key[1] + ((o - 1) \div 3) - 1, key[2] + ((o - 1) % 3) - 1>>]

\* lines 104-105: the cell of p1 and its 8 neighbours, dx outside, dy inside
Neighbours(key) ==
    [o \in 1..9 |-> <<key[1] + ((o - 1) \div 3) - 1, key[2] + ((o - 1) % 3) - 1>>]

\* lines 99-138: the records pushed on lines, in the order of the loops
ConnectionRecords(particleSystem, isShadow, allEqBands) ==
    LET grid == Grid(particleSystem)
        InCell(i, key) ==
            LET cell == GridAt(grid, key)
            IN  Concat([k \in DOMAIN cell |->
                    IF cell[k] = i THEN <<>>
                    ELSE PairLine(particleSystem[i], particleSystem[cell[k]],
                                  isShadow, allEqBands)])
        Around(i) ==
            LET near == Neighbours(CellKey(particleSystem[i]))
            IN  Concat([o \in DOMAIN near |-> InCell(i, near[o])])
    IN  Concat([i \in DOMAIN particleSystem |-> Around(i)])

\* new Float32Array(lines): the records' numbers in a row, each stored in
\* single precision
Float32Array(numbers) == [data |-> [k \in DOMAIN numbers |-> F32(numbers[k])]]

\* calculateConnections(particleSystem, isShadow, allEqBands); reading
\* .length of undefined is a TypeError
calculateConnections(particleSystem, isShadow, allEqBands) ==
    IF allEqBands = Undefined THEN TypeError
    ELSE IF Len(allEqBands.items) = 0 THEN Float32Array(<<>>)
    ELSE Float32Array(Concat(ConnectionRecords(particleSystem, isShadow, allEqBands)))

---------------------------------------------------------------------------
(* The particle worker *)

\* lines 66-73: a primary and a shadow particle in turn, particleCount times
RECURSIVE InitLoop(_, _, _, _)
InitLoop(i, ps, shadows, r) ==
    IF i >= particleCount THEN [ps |-> ps, shadows |-> shadows, rng |-> r]
    ELSE LET a == Particle(FALSE, r)
             b == Particle(TRUE, a.rng)
         IN  InitLoop(i + 1, Append(ps, a.p), Append(shadows, b.p), b.rng)

initParticleSystem(r) == InitLoop(0, <<>>, <<>>, r)

\* lines 156-157: array.forEach(p => p.update(eqBands))
RECURSIVE UpdateFrom(_, _, _, _)
UpdateFrom(i, ps, eqBands, r) ==
    IF i > Len(ps) THEN [ps |-> ps, rng |-> r]
    ELSE LET u == ParticleUpdate(ps[i], eqBands, r)
         IN  UpdateFrom(i + 1, [ps EXCEPT ![i] = u.p], eqBands, u.rng)

UpdateAll(ps, eqBands) == UpdateFrom(1, ps, eqBands, rng)

\* y before x
CoordsSwapped(ps) ==
    Float32Array([k \in 1..(2 * Len(ps)) |->
        IF k % 2 = 1 THEN ps[(k + 1) \div 2].y ELSE ps[k \div 2].x])

\* lines 164-174: the x, y pairs of a collection in its order
Coords(ps) ==
    Float32Array([k \in 1..(2 * Len(ps)) |->
        IF k % 2 = 1 THEN ps[(k + 1) \div 2].x ELSE ps[k \div 2].y])

\* the bands the main thread sends; with the generator started from Seeds a
\* particle is created within switchDistance of BandA and one of BandC
BandA == [x |-> 160 * Unit, y |-> 100 * Unit, dryLevel |-> LevelDen, wetLevel |-> LevelDen]
BandB == [x |-> 800 * Unit, y |-> 400 * Unit, dryLevel |-> 0, wetLevel |-> LevelDen \div 2]
BandC == [x |-> 415 * Unit, y |-> 380 * Unit, dryLevel |-> LevelDen \div 2, wetLevel |-> 0]

Snapshots == {Array(<<>>), Array(<<BandA>>), Array(<<BandB, BandA>>),
              Array(<<BandC, BandB, BandA>>)}

\* payload.eqBands of an update message: a snapshot, or nothing at all
Payloads == Snapshots \cup {Undefined}

Seeds == {12345, 4242}

\* the variables of the other specifications, left as they start
WorkerIdle ==
    /\ particlesArray = <<>>
    /\ shadowParticlesArray = <<>>
    /\ eqBandInstances = Array(<<>>)
    /\ lastMsg = [type |-> "none"]
    /\ posted = <<>>
    /\ threw = FALSE
    /\ nHandled = 0
    /\ nPosted = 0

StepIdle == sp = Undefined /\ sPre = Undefined /\ sBands = Array(<<>>) /\ sCount = 0

ConnIdle ==
    /\ cParticles = <<>> /\ cShadow = FALSE /\ cBands = Array(<<>>)
    /\ cRecords = <<>> /\ cLines = Float32Array(<<>>) /\ cDone = FALSE

AudioIdle ==
    /\ backendLoaded = FALSE /\ aReq = Undefined /\ aChunks = <<>>
    /\ aPosted = <<>> /\ aThrew = FALSE /\ aHandled = 0

Init ==
    /\ particlesArray = <<>>
    /\ shadowParticlesArray = <<>>
    /\ eqBandInstances = Array(<<>>)
    /\ rng \in Seeds
    /\ lastMsg = [type |-> "none"]
    /\ posted = <<>>
    /\ threw = FALSE
    /\ nHandled = 0
    /\ nPosted = 0
    /\ StepIdle /\ ConnIdle /\ AudioIdle

\* lines 148-150: onmessage, type === 'init'
OnInit ==
    /\ nHandled < MaxMsgs
    /\ LET sys == initParticleSystem(rng)
       IN  /\ particlesArray' = sys.ps
           /\ shadowParticlesArray' = sys.shadows
           /\ rng' = sys.rng
    /\ lastMsg' = [type |-> "init"]
    /\ posted' = <<>>
    /\ threw' = FALSE
    /\ nHandled' = nHandled + 1
    /\ UNCHANGED <<eqBandInstances, nPosted, stepVars, connVars, audioVars>>

\* lines 151-185: onmessage, type === 'update'
OnUpdate(eqBands) ==
    /\ nHandled < MaxMsgs
    /\ eqBandInstances' = eqBands
    /\ \E u \in {UpdateAll(particlesArray, eqBands)} :
       \E v \in {UpdateFrom(1, shadowParticlesArray, eqBands, u.rng)} :
       \E lines \in {calculateConnections(u.ps, FALSE, eqBands)} :
       \E shadowLines \in {calculateConnections(v.ps, TRUE, eqBands)} :
           /\ particlesArray' = u.ps
           /\ shadowParticlesArray' = v.ps
           /\ rng' = v.rng
           /\ IF lines = TypeError \/ shadowLines = TypeError
              THEN /\ threw' = TRUE
                   /\ posted' = <<>>
                   /\ nPosted' = nPosted
              ELSE /\ threw' = FALSE
                   /\ posted' = << [particleCoords |-> Coords(u.ps),
                                    shadowParticleCoords |-> Coords(v.ps),
                                    lines |-> lines,
                                    shadowLines |-> shadowLines] >>
                   /\ nPosted' = nPosted + 1
    /\ lastMsg' = [type |-> "update", eqBands |-> eqBands]
    /\ nHandled' = nHandled + 1
    /\ UNCHANGED <<stepVars, connVars, audioVars>>

Update == \E eqBands \in Payloads : OnUpdate(eqBands)

Next == OnInit \/ Update

Spec == Init /\ [][Next]_vars

---------------------------------------------------------------------------
(* Claims about the particle worker, checked under Spec *)

AllParticles ==
    {particlesArray[i] : i \in DOMAIN particlesArray}
        \cup {shadowParticlesArray[i] : i \in DOMAIN shadowParticlesArray}

\* an update request whose attractor snapshot is degraded
DegradedUpdate(msg) ==
    msg.type = "update" /\ msg.eqBands \in {Array(<<>>), Undefined}

\* C1: an update whose eqBands is the empty list or is missing raises no
\* error: no particle changes, both connection outputs are empty and the
\* response is posted.
C1_DegradedNeverRaises ==
    [][DegradedUpdate(lastMsg') =>
          /\ ~threw'
          /\ particlesArray' = particlesArray
          /\ shadowParticlesArray' = shadowParticlesArray
          /\ Len(posted') = 1
          /\ posted'[1].lines.data = <<>>
          /\ posted'[1].shadowLines.data = <<>>]_vars

\* the buffer holds the x, y of the particles of ps in their order: as they
\* are (exact), or rounded to single precision
HoldsPositions(buffer, ps, exact) ==
    /\ Len(buffer.data) = 2 * Len(ps)
    /\ \A i \in DOMAIN ps :
          /\ buffer.data[2 * i - 1] = IF exact THEN ps[i].x ELSE F32(ps[i].x)
          /\ buffer.data[2 * i] = IF exact THEN ps[i].y ELSE F32(ps[i].y)

\* the step is no update with the empty list, or one that changes no
\* particle and answers with the positions from before it and no lines
EmptyTick(exact) ==
    (lastMsg'.type = "update" /\ lastMsg'.eqBands = Array(<<>>)) =>
        /\ particlesArray' = particlesArray
        /\ shadowParticlesArray' = shadowParticlesArray
        /\ Len(posted') = 1
        /\ HoldsPositions(posted'[1].particleCoords, particlesArray, exact)
        /\ HoldsPositions(posted'[1].shadowParticleCoords,
                          shadowParticlesArray, exact)
        /\ Len(posted'[1].lines.data) = 0
        /\ Len(posted'[1].shadowLines.data) = 0

\* C2 as stated: on an update with the empty list no particle field changes,
\* the two position buffers hold exactly the positions the particles had
\* before the tick, and both line buffers have length 0.
C2_EmptyTickExact == [][EmptyTick(TRUE)]_vars

\* C2 as amended: the same, the position buffers holding the positions the
\* particles had before the tick rounded to single precision.
C2_EmptyTickSingle == [][EmptyTick(FALSE)]_vars

\* an empty-snapshot update after init answered with a buffer that differs
\* from the positions it was filled from
C2_Witness ==
    /\ lastMsg.type = "update" /\ lastMsg.eqBands = Array(<<>>)
    /\ Len(particlesArray) = particleCount
    /\ Len(posted) = 1
    /\ \E i \in DOMAIN particlesArray :
          posted[1].particleCoords.data[2 * i - 1] # particlesArray[i].x

\* the square of ten times the speed of p
SpeedSq100(p) == 100 * (p.speedX * p.speedX + p.speedY * p.speedY)

\* C3 as stated: in every state every particle has speed <= maxSpeed.
C3_SpeedAtMostMax ==
    \A p \in AllParticles :
        SpeedSq100(p) <= (maxSpeedTenths * Unit) * (maxSpeedTenths * Unit)

\* C3 as amended: in every state every particle has speed <= maxSpeed up to
\* the rounding of the arithmetic (SpeedTol units of the last place).
C3_SpeedWithinTolerance ==
    \A p \in AllParticles :
        SpeedSq100(p) <= (maxSpeedTenths * Unit + 10 * SpeedTol)
                           * (maxSpeedTenths * Unit + 10 * SpeedTol)

\* after an update with a non-empty snapshot a particle moves at the limit:
\* its speed was cut down to maxSpeed
C3_Witness ==
    /\ lastMsg.type = "update"
    /\ lastMsg.eqBands # Undefined
    /\ Len(lastMsg.eqBands.items) > 0
    /\ \E p \in AllParticles :
          SpeedSq100(p) >= (maxSpeedTenths * Unit - 10 * SpeedTol)
                             * (maxSpeedTenths * Unit - 10 * SpeedTol)

\* C8: an init posts nothing; an update posts exactly one response,
\* carrying four buffers: the two position buffers of length 2 * population,
\* the population being particleCount once an init was handled and 0 before,
\* and the two line buffers of a length that is a multiple of 5.
C8_OneResponsePerUpdate ==
    /\ lastMsg.type = "init" =>
          /\ posted = <<>>
          /\ Len(particlesArray) = particleCount
          /\ Len(shadowParticlesArray) = particleCount
    /\ Len(particlesArray) \in {0, particleCount}
    /\ Len(shadowParticlesArray) = Len(particlesArray)
    /\ lastMsg.type = "update" =>
          /\ Len(posted) = 1
          /\ Len(posted[1].particleCoords.data) = 2 * Len(particlesArray)
          /\ Len(posted[1].shadowParticleCoords.data)
                = 2 * Len(shadowParticlesArray)
          /\ Len(posted[1].lines.data) % 5 = 0
          /\ Len(posted[1].shadowLines.data) % 5 = 0

\* C10: right after an init every particle's target index is unset: it
\* indexes no attractor of any non-empty snapshot.
C10_TargetUnsetAfterInit ==
    lastMsg.type = "init" =>
        \A p \in AllParticles : \A s \in Snapshots :
            Len(s.items) > 0 => BandAt(s, p.targetIndex) = Undefined

---------------------------------------------------------------------------
(* Particle.update on one particle, snapshot after snapshot *)

\* where a new particle may be: within switchDistance of BandA, of BandB,
\* and far from every band
StepPlaces == {<<BandA.x + 5 * Unit, BandA.y + 10 * Unit>>,
               <<BandB.x - 10 * Unit, BandB.y - 5 * Unit>>,
               <<600 * Unit, 30 * Unit>>}

StepSpeeds == {<<0, 0>>, <<Unit \div 2, 0 - Unit + 1>>}

\* snapshots of 0 to 3 bands
StepSnapshots == {Array(<<>>), Array(<<BandA>>), Array(<<BandB>>),
                  Array(<<BandA, BandB>>), Array(<<BandA, BandC, BandB>>)}

\* a particle as the constructor leaves it (targetIndex 0)
StepInit ==
    /\ WorkerIdle /\ ConnIdle /\ AudioIdle
    /\ rng \in Seeds
    /\ \E place \in StepPlaces, speed \in StepSpeeds, isShadow \in BOOLEAN :
          sp = [x |-> place[1], y |-> place[2],
                speedX |-> speed[1], speedY |-> speed[2],
                targetIndex |-> 0, isShadow |-> isShadow]
    /\ sPre = sp
    /\ sBands = Array(<<>>)
    /\ sCount = 0

\* p.update(eqBands)
StepUpdate(eqBands) ==
    /\ sCount < MaxSteps
    /\ \E u \in {ParticleUpdate(sp, eqBands, rng)} :
          sp' = u.p /\ rng' = u.rng
    /\ sPre' = sp
    /\ sBands' = eqBands
    /\ sCount' = sCount + 1
    /\ UNCHANGED <<workerVars, connVars, audioVars>>

StepNext == \E eqBands \in StepSnapshots : StepUpdate(eqBands)

SpecStep == StepInit /\ [][StepNext]_vars

\* C4: after every update with a non-empty snapshot the particle's
\* targetIndex indexes that snapshot, also when the snapshot is shorter than
\* the one before and the stored index had become out of range.
C4_TargetIndexInRange ==
    (sCount > 0 /\ Len(sBands.items) > 0) =>
        (0 <= sp.targetIndex /\ sp.targetIndex < Len(sBands.items))

\* an update whose snapshot is too short for the index the particle held
C4_Witness ==
    /\ sCount > 0
    /\ Len(sBands.items) > 0
    /\ sPre.targetIndex >= Len(sBands.items)

\* the index the particle p has when the distance is measured in
\* p.update(eqBands), and whether that distance is under switchDistance
MeasuredIndex(p, eqBands, r) == Revalidate(p, eqBands, r).targetIndex

MeasuredNear(p, eqBands, r) ==
    LET target == BandAt(eqBands, MeasuredIndex(p, eqBands, r))
    IN  NearTarget(target.x - p.x, target.y - p.y)

\* C5: in a step where the particle is closer than switchDistance to its
\* target the new targetIndex differs from the one the distance was
\* measured with when the snapshot has 2 or more attractors, and is the same
\* after one draw when it has 1; in a step where the distance is at least
\* switchDistance and the stored index is valid targetIndex does not change.
C5_SwitchesTarget ==
    [][(Len(sBands'.items) > 0) =>
         LET n == Len(sBands'.items)
             v == Revalidate(sp, sBands', rng)
             near == MeasuredNear(sp, sBands', rng)
         IN  /\ (near /\ n >= 2) => sp'.targetIndex # v.targetIndex
             /\ (near /\ n = 1) =>
                   (sp'.targetIndex = v.targetIndex /\ rng' = NextRng(v.rng))
             /\ (~near /\ BandAt(sBands', sp.targetIndex) # Undefined) =>
                   (sp'.targetIndex = sp.targetIndex /\ rng' = rng)]_vars

\* a step with 2 or more attractors that moved the particle to another
\* target than the valid one it held
C5_Witness ==
    /\ sCount > 0
    /\ Len(sBands.items) >= 2
    /\ sPre.targetIndex < Len(sBands.items)
    /\ sp.targetIndex # sPre.targetIndex

---------------------------------------------------------------------------
(* calculateConnections on one collection *)

\* where the particles of the collection may be (several may be at one
\* place): in one cell, in adjacent cells and two cells apart, at distances
\* 10, 20, 100, 120 and 140
ConnPlaces == {<<110 * Unit, 50 * Unit>>, <<130 * Unit, 50 * Unit>>,
               <<250 * Unit, 50 * Unit>>, <<110 * Unit, 60 * Unit>>,
               <<10 * Unit, 50 * Unit>>, <<110 * Unit, 140 * Unit>>}

ConnBand(x, y, dryLevel, wetLevel) ==
    [x |-> x * Unit, y |-> y * Unit, dryLevel |-> dryLevel, wetLevel |-> wetLevel]

\* the level at which maxDist is cellSize: (cellSize - 10) / 150
CellLevel == ((cellSize - 10) * LevelDen) \div 150

\* one band or two, the two as far from the midpoint (120, 50) as each other
ConnSnapshots ==
    {Array(<<ConnBand(120, 50, LevelDen, 0)>>),
     Array(<<ConnBand(120, 50, CellLevel, LevelDen \div 2)>>),
     Array(<<ConnBand(100, 50, 0, CellLevel), ConnBand(140, 50, LevelDen, 0)>>),
     Array(<<ConnBand(140, 50, LevelDen, CellLevel), ConnBand(100, 50, 0, 0)>>)}

ConnParticle(place, isShadow) ==
    [x |-> place[1], y |-> place[2], speedX |-> 0, speedY |-> 0,
     targetIndex |-> 0, isShadow |-> isShadow]

ConnInit ==
    /\ WorkerIdle /\ StepIdle /\ AudioIdle
    /\ rng \in {0}
    /\ cShadow \in BOOLEAN
    /\ cBands \in ConnSnapshots
    /\ \E places \in [1..ConnCount -> ConnPlaces] :
          cParticles = [i \in 1..ConnCount |-> ConnParticle(places[i], cShadow)]
    /\ cRecords = <<>>
    /\ cLines = Float32Array(<<>>)
    /\ cDone = FALSE

\* calculateConnections(cParticles, cShadow, cBands): the array lines as it
\* is at line 139, and the buffer returned
ConnRun ==
    /\ ~cDone
    /\ cRecords' = ConnectionRecords(cParticles, cShadow, cBands)
    /\ cLines' = calculateConnections(cParticles, cShadow, cBands)
    /\ cDone' = TRUE
    /\ UNCHANGED <<workerVars, rng, stepVars, audioVars,
                   cParticles, cShadow, cBands>>

ConnNext == ConnRun

SpecConn == ConnInit /\ [][ConnNext]_vars

\* how many times r is in the sequence
Count(seq, r) == Cardinality({k \in DOMAIN seq : seq[k] = r})

Range(seq) == {seq[k] : k \in DOMAIN seq}

LevelOf(band, isShadow) == IF isShadow THEN band.dryLevel ELSE band.wetLevel

\* the first band, in snapshot order, that no band is nearer the midpoint
\* of p1 and p2 than
NearestFirst(p1, p2, bands) ==
    LET midX == RoundDiv(p1.x + p2.x, 2)
        midY == RoundDiv(p1.y + p2.y, 2)
        D(k) == (midX - bands.items[k].x) * (midX - bands.items[k].x)
                  + (midY - bands.items[k].y) * (midY - bands.items[k].y)
        k0 == CHOOSE k \in DOMAIN bands.items :
                  /\ \A m \in DOMAIN bands.items : D(k) <= D(m)
                  /\ \A m \in 1..(k - 1) : D(m) > D(k)
    IN  bands.items[k0]

DistSq(p1, p2) ==
    (p1.x - p2.x) * (p1.x - p2.x) + (p1.y - p2.y) * (p1.y - p2.y)

\* the grid cells of p1 and p2 are the same or adjacent
SameOrAdjacent(p1, p2) ==
    /\ CellOf(p1.x) - CellOf(p2.x) \in {-1, 0, 1}
    /\ CellOf(p1.y) - CellOf(p2.y) \in {-1, 0, 1}

\* the pair is closer than the maxDist of the band nearest its midpoint
Qualifies(p1, p2, isShadow, bands) ==
    LET maxDist == MaxDist(LevelOf(NearestFirst(p1, p2, bands), isShadow))
    IN  DistSq(p1, p2) < maxDist * maxDist

RecordOf(p1, p2, isShadow, bands) ==
    LET level == LevelOf(NearestFirst(p1, p2, bands), isShadow)
    IN  <<p1.x, p1.y, p2.x, p2.y, Opacity(DistSq(p1, p2), MaxDist(level), level)>>

\* the ordered pairs of distinct particles in the same or adjacent cells
\* that qualify
QualifyingPairs ==
    {pr \in (DOMAIN cParticles) \X (DOMAIN cParticles) :
        /\ pr[1] # pr[2]
        /\ SameOrAdjacent(cParticles[pr[1]], cParticles[pr[2]])
        /\ Qualifies(cParticles[pr[1]], cParticles[pr[2]], cShadow, cBands)}

BruteForceRecords(particleSystem, isShadow, allEqBands) ==
    Concat([i \in DOMAIN particleSystem |->
        Concat([j \in DOMAIN particleSystem |->
            IF i = j THEN <<>>
            ELSE PairLine(particleSystem[i], particleSystem[j],
                          isShadow, allEqBands)])])

\* every level in play gives maxDist <= cellSize
RadiusWithinCell(isShadow, bands) ==
    \A k \in DOMAIN bands.items :
        MaxDist(LevelOf(bands.items[k], isShadow)) <= cellSize * Unit

\* C7: the grid search emits what the scan over all pairs emits whenever
\* every level in play gives maxDist <= cellSize, and never a record the scan
\* does not emit (with maxDist over cellSize it can emit fewer: C7_Witness).
C7_GridAgreesWithBruteForce ==
    cDone =>
        LET brute == BruteForceRecords(cParticles, cShadow, cBands)
        IN  /\ \A r \in Range(cRecords) : Count(cRecords, r) <= Count(brute, r)
            /\ RadiusWithinCell(cShadow, cBands) =>
                  /\ Len(cRecords) = Len(brute)
                  /\ \A r \in Range(brute) : Count(cRecords, r) = Count(brute, r)

\* maxDist exceeds cellSize and the scan over all pairs emits a record, of a
\* pair two cells apart, that the grid search does not
C7_Witness ==
    /\ cDone
    /\ ~RadiusWithinCell(cShadow, cBands)
    /\ \E r \in Range(BruteForceRecords(cParticles, cShadow, cBands)) :
          Count(cRecords, r) = 0

---------------------------------------------------------------------------
(* The audio worker, audio-worker.js *)

Null == [null |-> TRUE]

extractFrames == 4096

\* lines 36-41: the channels' samples frame by frame
Interleave(channels, inputFrames) ==
    LET numChannels == Len(channels)
    IN  [k \in 1..(inputFrames * numChannels) |->
            channels[((k - 1) % numChannels) + 1][((k - 1) \div numChannels) + 1]]

\* lines 44-56: soundTouchSource.extract(target, numFramesToExtract,
\* positionFrames): the samples copied into target
SourceExtract(interleavedInputSamples, numChannels, numFramesToExtract, positionFrames) ==
    LET requestedSamples == numFramesToExtract * numChannels
        startSampleInBuffer == positionFrames * numChannels
        availableSamples == Len(interleavedInputSamples) - startSampleInBuffer
        samplesToCopy == IF requestedSamples < availableSamples
                         THEN requestedSamples ELSE availableSamples
    IN  IF startSampleInBuffer >= Len(interleavedInputSamples) THEN <<>>
        ELSE SubSeq(interleavedInputSamples, startSampleInBuffer + 1,
                    startSampleInBuffer + samplesToCopy)

\* lines 59, 67: what soundTouchFilter.extract(buffer, 4096) hands back call
\* after call until it returns 0. The filter is the SoundTouch library's:
\* it reads the source and yields outFrames frames in all, at most
\* chunkFrames (and at most 4096) of them a call; output frame f is the
\* source's frame f * inputFrames / outFrames.
RECURSIVE FilterChunks(_, _, _, _, _, _)
FilterChunks(interleaved, numChannels, inputFrames, outFrames, chunkFrames, done) ==
    IF done >= outFrames THEN <<>>
    ELSE LET least(a, b) == IF a < b THEN a ELSE b
             n == least(least(chunkFrames, extractFrames), outFrames - done)
             chunk == Concat([f \in 1..n |->
                         SourceExtract(interleaved, numChannels, 1,
                             ((done + f - 1) * inputFrames) \div outFrames)])
         IN  <<chunk>> \o FilterChunks(interleaved, numChannels, inputFrames,
                                       outFrames, chunkFrames, done + n)

\* lines 89-97: the channels of the interleaved output
Deinterleave(samples, numChannels, newTotalFrames) ==
    [ch \in 1..numChannels |->
        [f \in 1..newTotalFrames |-> samples[(f - 1) * numChannels + ch]]]

\* processAudioWithSoundTouch(audioBufferData, rateFactor), the filter
\* yielding outFrames frames, chunkFrames a call: null, the result, or the
\* TypeError of reading channels[0].length with no channel
processAudioWithSoundTouch(audioBufferData, rateFactor, loaded, outFrames, chunkFrames) ==
    IF ~loaded THEN Null
    ELSE IF Len(audioBufferData.channels) = 0 THEN TypeError
    ELSE
      LET numChannels == Len(audioBufferData.channels)
          inputFrames == Len(audioBufferData.channels[1])
          interleaved == Interleave(audioBufferData.channels, inputFrames)
          processedSamplesContainer ==
              FilterChunks(interleaved, numChannels, inputFrames,
                           IF inputFrames = 0 THEN 0 ELSE outFrames,
                           chunkFrames, 0)
          finalOutputSamplesInterleaved == Concat(processedSamplesContainer)
          newTotalFrames == Len(finalOutputSamplesInterleaved) \div numChannels
      IN  IF Len(processedSamplesContainer) = 0 THEN Null
          ELSE IF newTotalFrames = 0 THEN Null
          ELSE [channels |-> Deinterleave(finalOutputSamplesInterleaved,
                                          numChannels, newTotalFrames),
                sampleRate |-> audioBufferData.sampleRate]

\* the channels a request may carry: none, one without samples, one, two
AudioChannels == {<<>>, << <<>> >>, << <<1, 2>> >>, << <<1, 2, 3>>, <<4, 5, 6>> >>}

AudioRequests ==
    [audioBufferChannels : AudioChannels, sampleRate : {44100, 48000},
     rateFactorTenths : {5, 20}, cacheKey : {"k1", "k2"}]

\* lines 3-9: importScripts succeeds or fails; if it fails the worker posts
\* an error message as it starts
AudioInit ==
    /\ WorkerIdle /\ StepIdle /\ ConnIdle
    /\ rng \in {0}
    /\ backendLoaded \in BOOLEAN
    /\ aReq = Undefined
    /\ aChunks = <<>>
    /\ aPosted = IF backendLoaded THEN <<>>
                 ELSE << [error |-> "No se pudo cargar la libreria de audio."] >>
    /\ aThrew = FALSE
    /\ aHandled = 0

\* lines 107-135: onmessage
OnAudioMessage(req, outFrames, chunkFrames) ==
    /\ aHandled < MaxAudioMsgs
    /\ aReq' = req
    /\ aChunks' = <<outFrames, chunkFrames>>
    /\ \E processedResult \in
            {processAudioWithSoundTouch(
                [channels |-> req.audioBufferChannels, sampleRate |-> req.sampleRate],
                req.rateFactorTenths, backendLoaded, outFrames, chunkFrames)} :
          IF processedResult = TypeError
          THEN aThrew' = TRUE /\ aPosted' = <<>>
          ELSE IF processedResult # Null
          THEN /\ aThrew' = FALSE
               /\ aPosted' = << [processedBufferChannels |-> Array(processedResult.channels),
                                 sampleRate |-> processedResult.sampleRate,
                                 cacheKey |-> req.cacheKey] >>
          ELSE /\ aThrew' = FALSE
               /\ aPosted' = << [processedBufferChannels |-> Null,
                                 cacheKey |-> req.cacheKey] >>
    /\ aHandled' = aHandled + 1
    /\ UNCHANGED <<workerVars, rng, stepVars, connVars, backendLoaded>>

AudioNext ==
    \E req \in AudioRequests, outFrames \in 0..MaxOutFrames,
       chunkFrames \in 1..MaxChunkFrames :
        OnAudioMessage(req, outFrames, chunkFrames)

SpecAudio == AudioInit /\ [][AudioNext]_vars

\* the request fails: no backend, no input, or no output frame
AudioFails ==
    \/ ~backendLoaded
    \/ Len(aReq.audioBufferChannels) = 0
    \/ Len(aReq.audioBufferChannels[1]) = 0
    \/ aChunks[1] = 0

\* C9: every request yields exactly one response with the request's
\* cacheKey and nothing is thrown; when processing fails the response has
\* processedBufferChannels = null, and when it succeeds it has one output
\* channel per input channel, all of one length, and the request's
\* sampleRate.
C9_OneResponsePerRequest ==
    aHandled > 0 =>
        /\ ~aThrew
        /\ Len(aPosted) = 1
        /\ aPosted[1].cacheKey = aReq.cacheKey
        /\ AudioFails => aPosted[1].processedBufferChannels = Null
        /\ ~AudioFails =>
              /\ aPosted[1].processedBufferChannels # Null
              /\ Len(aPosted[1].processedBufferChannels.items)
                    = Len(aReq.audioBufferChannels)
              /\ \A a, b \in DOMAIN aPosted[1].processedBufferChannels.items :
                    Len(aPosted[1].processedBufferChannels.items[a])
                      = Len(aPosted[1].processedBufferChannels.items[b])
              /\ aPosted[1].sampleRate = aReq.sampleRate

===========================================================================
